---- MODULE Spec2Model ----
(***************************************************************************)
(* maze_runner: make_maze (generation), string_to_array_maze and           *)
(* array_to_string_maze (text conversion) and solve (exploration), as a    *)
(* state machine.  Coordinates are (row, column) pairs counted from 0, as  *)
(* in the source; an array is a record of its shape and its cells.         *)
(***************************************************************************)
EXTENDS Integers, Sequences, FiniteSets, TLC

VARIABLES
  pc,         \* where the program is: "make_maze", "maze" (a text is at hand),
              \* "solve", "both" (two calls of solve side by side), "ValueError"
  w, h,       \* make_maze: the arguments, as lines 32-33 leave them
  start, end, \* make_maze: the placement flags
  mat,        \* make_maze: the array
  unvisited,  \* make_maze: the set of rooms not popped yet
  visiting,   \* make_maze: the list `visiting`
  maze,       \* the maze text make_maze returned, or the caller wrote
  strategy,   \* solve: its arguments
  verbosity,
  run,        \* solve: its locals (see Blank)
  other,      \* a second call of solve on the same text, with the same
  verbosity_other, \* strategy and its own verbosity
  seen        \* the (array, frontier) pairs the loop of solve started an
              \* iteration in

vars == <<pc, w, h, start, end, mat, unvisited, visiting, maze,
          strategy, verbosity, run, other, verbosity_other, seen>>

(* ------------------------------ bounds --------------------------------- *)

\* largest width and height given to make_maze
MaxW == 6
MaxH == 6
\* largest number of cells inside the border of a hand-written maze given
\* to solve
MaxCells == 5
\* largest number of loop iterations of solve that are followed at verbosity
\* 3, where the loop need not end; at the other levels every run is followed
\* to its end
MaxStep == 5
\* largest number of cells of a text given to solve that is written without
\* a border
MaxBare == 2
\* largest number of inner cells of a text given to solve that has a stray
\* character, a second Start or a second End
MaxInner == 4

(* --------------------------- cell codes -------------------------------- *)

c_path == [num |-> 0, chr |-> " ", rgb |-> <<255, 255, 255>>]
c_wall == [num |-> 1, chr |-> "#", rgb |-> <<0, 0, 0>>]
c_start == [num |-> 2, chr |-> "&", rgb |-> <<0, 255, 0>>]
c_end == [num |-> 3, chr |-> "!", rgb |-> <<0, 255, 255>>]
c_visited == [num |-> 5, chr |-> ".", rgb |-> <<255, 0, 0>>]
c_finalpath == [num |-> 6, chr |-> "*", rgb |-> <<255, 255, 0>>]
c_current == [num |-> 7, chr |-> "@", rgb |-> <<0, 255, 255>>]

codes == <<c_path, c_wall, c_start, c_end, c_visited, c_finalpath, c_current>>

\* the line break of the text format
NL == "\n"

(* ------------------------------ arrays --------------------------------- *)

\* np.zeros((rows, cols))
zeros(rows, cols) ==
  [shape |-> <<rows, cols>>,
   a |-> [p \in (0 .. rows - 1) \X (0 .. cols - 1) |-> 0]]

\* numpy's index rule on an axis of length n: a negative index counts from
\* the end, anything outside -n .. n-1 is an IndexError (here -1)
Index(i, n) ==
  IF 0 <= i /\ i < n THEN i
  ELSE IF -n <= i /\ i < 0 THEN i + n
  ELSE -1

InBounds(m, p) ==
  Index(p[1], m.shape[1]) >= 0 /\ Index(p[2], m.shape[2]) >= 0

Cell(m, p) == <<Index(p[1], m.shape[1]), Index(p[2], m.shape[2])>>

\* m[y, x] and m[y, x] = v, for an index that is in bounds
Get(m, p) == m.a[Cell(m, p)]

Put(m, p, v) == [m EXCEPT !.a[Cell(m, p)] = v]

(* --------------------------- serializer -------------------------------- *)

\* the inner loop of array_to_string_maze: the character of the first code
\* whose number is c, nothing when no code has that number
CodeChar(c) ==
  LET hits == {i \in 1 .. Len(codes) : codes[i].num = c}
  IN  IF hits = {} THEN <<>>
      ELSE <<codes[CHOOSE i \in hits : \A j \in hits : i <= j].chr>>

RECURSIVE RowText(_, _, _)
RowText(m, y, x) ==
  IF x >= m.shape[2] THEN <<NL>>
  ELSE CodeChar(m.a[<<y, x>>]) \o RowText(m, y, x + 1)

RECURSIVE RowsText(_, _)
RowsText(m, y) ==
  IF y >= m.shape[1] THEN <<>>
  ELSE RowText(m, y, 0) \o RowsText(m, y + 1)

array_to_string_maze(m) == RowsText(m, 0)

\* maze.split('\n')
RECURSIVE Split(_, _, _)
Split(s, i, line) ==
  IF i > Len(s) THEN <<line>>
  ELSE IF s[i] = NL THEN <<line>> \o Split(s, i + 1, <<>>)
  ELSE Split(s, i + 1, Append(line, s[i]))

\* the innermost loop of string_to_array_maze: the number the codes give to
\* character c (the last code that has it), or -1 when no code has it
CharCode(c) ==
  LET hits == {i \in 1 .. Len(codes) : codes[i].chr = c}
  IN  IF hits = {} THEN -1
      ELSE codes[CHOOSE i \in hits : \A j \in hits : i >= j].num

\* line 108 raises IndexError when a recognised character lies beyond the
\* length of the first line
TooLong(s) ==
  LET lines == Split(s, 1, <<>>)
  IN  \E y \in 1 .. Len(lines) : \E x \in 1 .. Len(lines[y]) :
        x > Len(lines[1]) /\ CharCode(lines[y][x]) # -1

\* string_to_array_maze, for a text that is not TooLong
string_to_array_maze(s) ==
  LET lines == Split(s, 1, <<>>)
      rows == Len(lines)
      cols == Len(lines[1])
      known(y, x) == x + 1 <= Len(lines[y + 1]) /\ CharCode(lines[y + 1][x + 1]) # -1
  IN  [shape |-> <<rows, cols>>,
       a |-> [p \in (0 .. rows - 1) \X (0 .. cols - 1) |->
                IF known(p[1], p[2])
                THEN CharCode(lines[p[1] + 1][p[2] + 1]) ELSE 0]]

\* the locals of solve before its first line has run; popped lists the
\* cells taken from the frontier so far and report holds the 'Exit at'
\* summary once it is printed
Blank ==
  [status |-> "none", mat |-> zeros(0, 0), paths |-> 0,
   start |-> <<>>, end |-> <<>>, current |-> <<>>, stack |-> <<>>,
   step |-> 0, explored |-> 0, walked |-> 0, max_depth |-> 0,
   report |-> <<>>, popped |-> <<>>]

(* ---------------------------- make_maze -------------------------------- *)

Odd(n) == n % 2 # 0

Rooms(hh, ww) == {p \in (0 .. hh - 1) \X (0 .. ww - 1) : Odd(p[1]) /\ Odd(p[2])}

\* the list of a set of permutations of 1 .. n: the outcomes of a shuffle
Perms(n) ==
  {f \in [1 .. n -> 1 .. n] : \A i, j \in 1 .. n : f[i] = f[j] => i = j}

shuffle(s, f) == [i \in 1 .. Len(s) |-> s[f[i]]]

\* [n for n in cands if keep(n)], in the order of cands
RECURSIVE Filter(_, _)
Filter(cands, keep) ==
  IF cands = <<>> THEN <<>>
  ELSE (IF Head(cands) \in keep THEN <<Head(cands)>> ELSE <<>>)
         \o Filter(Tail(cands), keep)

\* An entry of visiting.  `visiting += current` extends the list by the two
\* integers of the pair, never by the pair; the code reads the list only by
\* `n in visiting` (n a pair), by its truth value and by pop(), none of which
\* depends on which integer an entry is, so an entry is kept as its type.
IntEntry == [type |-> "int"]

\* n in visiting: Python compares the pair n with each entry, and a pair
\* equals no integer
InVisiting(n, v) == \E i \in 1 .. Len(v) : v[i].type = "tuple" /\ v[i].val = n

unvisited_neighbors(current, unv, v) ==
  Filter(<<<<current[1] - 2, current[2]>>, <<current[1] + 2, current[2]>>,
           <<current[1], current[2] - 2>>, <<current[1], current[2] + 2>>>>,
         {n \in unv : ~InVisiting(n, v)})

\* lines 59-66: the cell set to 1 for the chosen neighbour
Carve(m, current, chosen) ==
  IF chosen[1] + 2 = current[1] THEN Put(m, <<current[1] - 1, current[2]>>, 1)
  ELSE IF chosen[1] - 2 = current[1] THEN Put(m, <<current[1] + 1, current[2]>>, 1)
  ELSE IF chosen[2] + 2 = current[2] THEN Put(m, <<current[1], current[2] - 1>>, 1)
  ELSE IF chosen[2] - 2 = current[2] THEN Put(m, <<current[1], current[2] + 1>>, 1)
  ELSE m

\* lines 71-75: two columns and two rows set to 1, then the slice
\* mat[1:h-1, 1:w-1]
Trim(m, hh, ww) ==
  LET ones == [p \in DOMAIN m.a |->
                 IF p[2] = 1 \/ p[2] = ww - 2 \/ p[1] = 1 \/ p[1] = hh - 2
                 THEN 1 ELSE m.a[p]]
      rows == IF hh - 2 > 0 THEN hh - 2 ELSE 0
      cols == IF ww - 2 > 0 THEN ww - 2 ELSE 0
  IN  [shape |-> <<rows, cols>>,
       a |-> [p \in (0 .. rows - 1) \X (0 .. cols - 1) |->
                ones[<<p[1] + 1, p[2] + 1>>]]]

\* line 80: the indices (from 1 here) of the ' ' characters
Spaces(s) ==
  LET RECURSIVE from(_)
      from(i) == IF i > Len(s) THEN <<>>
                 ELSE (IF s[i] = c_path.chr THEN <<i>> ELSE <<>>) \o from(i + 1)
  IN  from(1)

Del(s, i) == SubSeq(s, 1, i - 1) \o SubSeq(s, i + 1, Len(s))

\* lines 32-41
InitMake ==
  /\ pc = "make_maze"
  /\ \E W \in 1 .. MaxW, H \in 1 .. MaxH :
       /\ w = W + 1
       /\ h = H + 1
  /\ start = FALSE
  /\ end = FALSE
  /\ mat = [shape |-> <<h, w>>,
            a |-> [p \in (0 .. h - 1) \X (0 .. w - 1) |->
                     IF p \in Rooms(h, w) THEN 1 ELSE 0]]
  /\ unvisited = Rooms(h, w)
  /\ visiting = <<>>
  /\ maze = <<>>
  /\ strategy = "dfs"
  /\ verbosity = 0
  /\ run = Blank
  /\ other = Blank
  /\ verbosity_other = 0
  /\ seen = {}

\* lines 44-69: one iteration of the carving loop
Carving ==
  /\ pc = "make_maze"
  /\ unvisited # {}
  /\ \E current \in unvisited :
       LET unv == unvisited \ {current}
           nb == unvisited_neighbors(current, unv, visiting)
       IN  /\ unvisited' = unv
           /\ IF nb # <<>>
              THEN \E f \in Perms(Len(nb)) :
                     /\ visiting' = visiting \o <<IntEntry, IntEntry>>
                     /\ mat' = Carve(mat, current, shuffle(nb, f)[1])
              ELSE /\ visiting' = IF visiting # <<>>
                                  THEN SubSeq(visiting, 1, Len(visiting) - 1)
                                  ELSE visiting
                   /\ mat' = mat
  /\ UNCHANGED <<pc, w, h, start, end, maze, strategy, verbosity, run, other, verbosity_other, seen>>

\* lines 71-92 with the text as it stands at line 77 and the flags st and
\* en: the placement of Start and End at the indices randrange returns.
\* randrange(0) raises ValueError, which leaves make_maze without a result.
Place(text, st, en) ==
  LET spaces == Spaces(text)
      starts == IF st THEN 1 .. Len(spaces) ELSE {0}
  IN  IF (st \/ en) /\ spaces = <<>> THEN {"ValueError"}
      ELSE UNION {
        LET text2 == IF st THEN [text EXCEPT ![spaces[i]] = c_start.chr] ELSE text
            spaces2 == IF st THEN Del(spaces, i) ELSE spaces
        IN  IF ~en THEN {text2}
            ELSE IF spaces2 = <<>> THEN {"ValueError"}
            ELSE {[text2 EXCEPT ![spaces2[j]] = c_end.chr] : j \in 1 .. Len(spaces2)}
        : i \in starts}

\* lines 71-92: the border, the slice, the text and the placement; the
\* arguments start and end are first read here
Placing ==
  /\ pc = "make_maze"
  /\ unvisited = {}
  /\ \E st \in BOOLEAN, en \in BOOLEAN :
       /\ start' = st
       /\ end' = en
       /\ \E res \in Place(array_to_string_maze(Trim(mat, h, w)), st, en) :
            IF res = "ValueError"
            THEN pc' = "ValueError" /\ maze' = <<>>
            ELSE pc' = "maze" /\ maze' = res
  /\ mat' = Trim(mat, h, w)
  /\ UNCHANGED <<w, h, unvisited, visiting, strategy, verbosity, run, other, verbosity_other, seen>>

(* ------------------------------- solve --------------------------------- *)

Strategies == {"dfs", "bfs", "a*"}

\* the square of distance(p1, p2); sorted() compares the square roots, which
\* are ordered as their squares are
distance2(p1, p2) ==
  (p2[2] - p1[2]) * (p2[2] - p1[2]) + (p2[1] - p1[1]) * (p2[1] - p1[1])

\* sorted(s, key=lambda p: distance(p, goal)): ascending and stable
sorted(s, goal) ==
  LET n == Len(s)
      f == CHOOSE g \in Perms(n) :
             \A i, j \in 1 .. n :
               i < j => \/ distance2(s[g[i]], goal) < distance2(s[g[j]], goal)
                        \/ /\ distance2(s[g[i]], goal) = distance2(s[g[j]], goal)
                           /\ g[i] < g[j]
  IN  [i \in 1 .. n |-> s[f[i]]]

\* np.nonzero(m == v), then [0][0] and [1][0]: the first cell holding v in
\* row-major order, or <<>> when no cell holds v (an IndexError)
First(m, v) ==
  LET hits == {p \in DOMAIN m.a : m.a[p] = v}
  IN  IF hits = {} THEN <<>>
      ELSE CHOOSE p \in hits :
             \A q \in hits : p[1] < q[1] \/ (p[1] = q[1] /\ p[2] <= q[2])

\* Begin without the test of lines 162-163
BeginUnchecked(text, strat) ==
  IF TooLong(text) THEN [Blank EXCEPT !.status = "IndexError"]
  ELSE LET m == string_to_array_maze(text)
           s == First(m, c_start.num)
           e == First(m, c_end.num)
       IN  [Blank EXCEPT !.status = "running", !.mat = m, !.start = s,
                         !.end = e, !.current = s, !.stack = <<s>>]

\* lines 162-182: the state of solve when it reaches its loop, or the
\* exception that ends it before
Begin(text, strat) ==
  IF strat \notin Strategies THEN [Blank EXCEPT !.status = "ValueError"]
  ELSE IF TooLong(text) THEN [Blank EXCEPT !.status = "IndexError"]
  ELSE LET m == string_to_array_maze(text)
           found == [Blank EXCEPT
                       !.mat = m,
                       !.paths = Cardinality({p \in DOMAIN m.a : m.a[p] = 0})]
           s == First(m, c_start.num)
           e == First(m, c_end.num)
       IN  IF s = <<>> \/ e = <<>>
           THEN [found EXCEPT !.status = "IndexError"]
           ELSE [found EXCEPT !.status = "running", !.start = s,
                              !.end = e, !.current = s, !.stack = <<s>>]

prospective(c) ==
  <<<<c[1] - 1, c[2]>>, <<c[1], c[2] - 1>>, <<c[1] + 1, c[2]>>, <<c[1], c[2] + 1>>>>

\* Admissible with the test of line 236 as `== c_path[0]`
AdmissiblePathOnly(m, c) ==
  Filter(prospective(c),
         {p \in {prospective(c)[i] : i \in 1 .. 4} :
            InBounds(m, p) /\ Get(m, p) = c_path.num})

\* Admissible with the test of line 236 as `!= c_visited[0]`
AdmissibleNotVisited(m, c) ==
  Filter(prospective(c),
         {p \in {prospective(c)[i] : i \in 1 .. 4} :
            InBounds(m, p) /\ Get(m, p) # c_visited.num})

\* lines 234-239 on the array m: the neighbours appended to next, in order
Admissible(m, c) ==
  Filter(prospective(c),
         {p \in {prospective(c)[i] : i \in 1 .. 4} :
            InBounds(m, p) /\ Get(m, p) \notin {c_wall.num, c_visited.num}})

\* lines 234-239 raise IndexError at the first neighbour outside the array
Raises(m, c) == \E i \in 1 .. 4 : ~InBounds(m, prospective(c)[i])

\* the cell the loop takes from the frontier, and the frontier left
Popped(r, strat) ==
  IF strat = "bfs" THEN Head(r.stack) ELSE r.stack[Len(r.stack)]

Rest(r, strat) ==
  IF strat = "bfs" THEN Tail(r.stack) ELSE SubSeq(r.stack, 1, Len(r.stack) - 1)

\* line 250: what verbosity 3 writes into the expanded cell
Expanded(m, c, verb) ==
  IF verb >= 3 THEN Put(m, c, c_current.num) ELSE m

\* Expand without line 248
ExpandUncounted(r, ordered, verb) ==
  [r EXCEPT !.mat = Expanded(r.mat, r.current, verb),
            !.stack = r.stack \o ordered]

\* Expand with line 248 adding two
ExpandTwice(r, ordered, verb) ==
  [r EXCEPT !.mat = Expanded(r.mat, r.current, verb),
            !.stack = r.stack \o ordered,
            !.walked = r.walked + 2]

\* lines 246-250: the ordered neighbours join the frontier, walked counts
\* once more, and verbosity 3 marks the cell Current again
Expand(r, ordered, verb) ==
  [r EXCEPT !.mat = Expanded(r.mat, r.current, verb),
            !.stack = r.stack \o ordered,
            !.walked = r.walked + 1]

\* lines 187-257: one iteration of the loop, f the outcome of shuffle
Iterate(r, strat, verb, f) ==
  LET current == Popped(r, strat)
      r1 == [r EXCEPT !.current = current,
                      !.stack = Rest(r, strat),
                      !.step = r.step + 1,
                      !.popped = Append(r.popped, current)]
  IN  IF ~InBounds(r.mat, current) THEN [r1 EXCEPT !.status = "IndexError"]
      ELSE
      LET r2 == [r1 EXCEPT !.mat = Put(r.mat, current, c_current.num),
                           !.max_depth = IF r1.step > r.max_depth
                                         THEN r1.step ELSE r.max_depth,
                           !.explored = r.explored + 1,
                           !.walked = r.walked + 1]
      IN  IF current = r.end
          THEN [r2 EXCEPT
                  !.mat = Put(Put(r2.mat, r.start, c_start.num), current, c_end.num),
                  !.report = <<[at |-> current, explored |-> r2.explored,
                                walked |-> r2.walked, depth |-> r2.step,
                                max_depth |-> r2.max_depth]>>,
                  !.status = "exit"]
          ELSE LET m == Put(r2.mat, current, c_visited.num)
               IN  IF Raises(m, current)
                   THEN [r2 EXCEPT !.mat = m, !.status = "IndexError"]
                   ELSE LET next == Admissible(m, current)
                            ordered == IF strat = "a*" THEN sorted(next, r.end)
                                       ELSE shuffle(next, f)
                        IN  Expand([r2 EXCEPT !.mat = m], ordered, verb)

\* the outcomes shuffle can have in the iteration that r is about to run
Outcomes(r, strat) ==
  LET current == Popped(r, strat)
  IN  IF strat = "a*" \/ ~InBounds(r.mat, current) \/ current = r.end
      THEN Perms(0)
      ELSE Perms(Len(Admissible(Put(r.mat, current, c_visited.num), current)))

\* the call solve(maze, strategy, verbosity), lines 154-184
Solving ==
  /\ pc = "maze"
  /\ \E strat \in Strategies \cup {"greedy"}, verb \in 0 .. 3 :
       /\ strategy' = strat
       /\ verbosity' = verb
       /\ run' = Begin(maze, strat)
  /\ pc' = "solve"
  /\ UNCHANGED <<w, h, start, end, mat, unvisited, visiting, maze, other,
                 verbosity_other, seen>>

\* lines 186-257: the loop runs once more
Exploring ==
  /\ pc = "solve"
  /\ run.status = "running"
  /\ run.stack # <<>>
  /\ verbosity >= 3 => run.step < MaxStep
  /\ \E f \in Outcomes(run, strategy) : run' = Iterate(run, strategy, verbosity, f)
  /\ seen' = seen \cup {<<run.mat, run.stack>>}
  /\ UNCHANGED <<pc, w, h, start, end, mat, unvisited, visiting, maze,
                 strategy, verbosity, other, verbosity_other>>

\* line 186: the frontier is empty, the loop ends and solve returns
Exhausting ==
  /\ pc = "solve"
  /\ run.status = "running"
  /\ run.stack = <<>>
  /\ run' = [run EXCEPT !.status = "exhausted"]
  /\ UNCHANGED <<pc, w, h, start, end, mat, unvisited, visiting, maze,
                 strategy, verbosity, other, verbosity_other, seen>>

Next == Carving \/ Placing \/ Solving \/ Exploring \/ Exhausting

Spec == InitMake /\ [][Next]_vars

(* ------------------- solve on hand-written mazes ----------------------- *)

\* a grid of rows x cols cells inside a border of Wall: Wall on the cells of
\* walls, Start on s, End on e and Path elsewhere; with s or e the corner
\* <<0, 0>> the grid has no Start or no End
Bordered(rows, cols, walls, s, e) ==
  [shape |-> <<rows + 2, cols + 2>>,
   a |-> [p \in (0 .. rows + 1) \X (0 .. cols + 1) |->
            IF p[1] \in {0, rows + 1} \/ p[2] \in {0, cols + 1} THEN c_wall.num
            ELSE IF p = s THEN c_start.num
            ELSE IF p = e THEN c_end.num
            ELSE IF p \in walls THEN c_wall.num
            ELSE c_path.num]]

\* the texts given to solve: every such grid of one or two inner rows and
\* at most MaxCells inner cells as
\* array_to_string_maze writes it, and the same text without its last line
\* break (as a text editor, or str.strip, leaves it)
HandMazes ==
  UNION {
    LET inner == (1 .. rows) \X (1 .. cols)
    IN  IF rows * cols > MaxCells THEN {} ELSE UNION {
          LET text == array_to_string_maze(Bordered(rows, cols, walls, se[1], se[2]))
          IN  {text, SubSeq(text, 1, Len(text) - 1)}
          : walls \in SUBSET inner,
            se \in {x \in (inner \cup {<<0, 0>>}) \X (inner \cup {<<0, 0>>}) :
                     x[1] # x[2] \/ x[1] = <<0, 0>>}}
    : rows \in 1 .. 2, cols \in 1 .. MaxCells}

InitSolve ==
  /\ pc = "maze"
  /\ maze \in HandMazes
  /\ w = 0
  /\ h = 0
  /\ start = FALSE
  /\ end = FALSE
  /\ mat = zeros(0, 0)
  /\ unvisited = {}
  /\ visiting = <<>>
  /\ strategy = "dfs"
  /\ verbosity = 0
  /\ run = Blank
  /\ other = Blank
  /\ verbosity_other = 0
  /\ seen = {}

NextSolve == Solving \/ Exploring \/ Exhausting

SolveSpec == InitSolve /\ [][NextSolve]_vars

(* ------------- solve on texts that are not regular mazes --------------- *)

\* a grid of rows x cols cells without a border: Wall on the cells of walls,
\* Start on s, End on e and Path elsewhere
Bare(rows, cols, walls, s, e) ==
  [shape |-> <<rows, cols>>,
   a |-> [p \in (0 .. rows - 1) \X (0 .. cols - 1) |->
            IF p = s THEN c_start.num
            ELSE IF p = e THEN c_end.num
            ELSE IF p \in walls THEN c_wall.num
            ELSE c_path.num]]

\* the texts of every such grid of one or two rows and at most MaxBare
\* cells, with and without the last line break
BareMazes ==
  UNION {
    LET cells == (0 .. rows - 1) \X (0 .. cols - 1)
    IN  IF rows * cols > MaxBare THEN {} ELSE UNION {
          LET text == array_to_string_maze(Bare(rows, cols, walls, se[1], se[2]))
          IN  {text, SubSeq(text, 1, Len(text) - 1)}
          : walls \in SUBSET cells,
            se \in {x \in cells \X cells : x[1] # x[2]}}
    : rows \in 1 .. 2, cols \in 1 .. MaxBare}

\* a character no code has
stray == "?"

\* the texts of the bordered grids of one inner row of at most MaxInner
\* cells with a Start and an End, in which one Path cell is overwritten by a
\* stray character, by a second Start or by a second End
Scribbled ==
  UNION {
    UNION {
      LET text == array_to_string_maze(Bordered(1, cols, walls, se[1], se[2]))
      IN  {[text EXCEPT ![i] = c] :
             i \in {k \in 1 .. Len(text) : text[k] = c_path.chr},
             c \in {stray, c_start.chr, c_end.chr}}
      : walls \in SUBSET ({1} \X (1 .. cols)),
        se \in {x \in ({1} \X (1 .. cols)) \X ({1} \X (1 .. cols)) : x[1] # x[2]}}
    : cols \in 1 .. MaxInner}

\* the texts of the bordered grids of two inner rows of at most MaxInner
\* cells each without an inner Wall, whose open cells form an area with
\* cycles
OpenMazes ==
  UNION {
    LET inner == (1 .. 2) \X (1 .. cols)
    IN  {array_to_string_maze(Bordered(2, cols, {}, se[1], se[2])) :
           se \in {x \in inner \X inner : x[1] # x[2]}}
    : cols \in 1 .. MaxInner}

InitLoose ==
  /\ pc = "maze"
  /\ maze \in BareMazes \cup Scribbled \cup OpenMazes
  /\ w = 0
  /\ h = 0
  /\ start = FALSE
  /\ end = FALSE
  /\ mat = zeros(0, 0)
  /\ unvisited = {}
  /\ visiting = <<>>
  /\ strategy = "dfs"
  /\ verbosity = 0
  /\ run = Blank
  /\ other = Blank
  /\ verbosity_other = 0
  /\ seen = {}

LooseSpec == InitLoose /\ [][NextSolve]_vars

(* -------------- two calls of solve on the same text ------------------- *)

\* the outcome of one shuffle on a list of n entries, when the random source
\* orders a longer list as g does: the order g gives to positions 1 .. n
Induced(g, n) ==
  [i \in 1 .. n |->
     CHOOSE k \in 1 .. n : Cardinality({j \in 1 .. n : g[j] < g[k]}) = i - 1]

\* how many neighbours the iteration that r is about to run shuffles
Shuffled(r, strat) ==
  LET current == Popped(r, strat)
  IN  IF strat = "a*" \/ ~InBounds(r.mat, current) \/ current = r.end THEN 0
      ELSE Len(Admissible(Put(r.mat, current, c_visited.num), current))

Max(a, b) == IF a >= b THEN a ELSE b

\* solve(maze, strategy, verbosity) and solve(maze, strategy,
\* verbosity_other), lines 154-184 of each
SolvingBoth ==
  /\ pc = "maze"
  /\ \E strat \in Strategies, verb \in 0 .. 3, verb2 \in 0 .. 3 :
       /\ strategy' = strat
       /\ verbosity' = verb
       /\ verbosity_other' = verb2
       /\ run' = Begin(maze, strat)
       /\ other' = Begin(maze, strat)
  /\ pc' = "both"
  /\ UNCHANGED <<w, h, start, end, mat, unvisited, visiting, maze, seen>>

\* lines 186-257 of both calls: each runs its loop once more, and every
\* shuffle has the same outcome in both
ExploringBoth ==
  /\ pc = "both"
  /\ run.status = "running" /\ run.stack # <<>>
  /\ other.status = "running" /\ other.stack # <<>>
  /\ (verbosity >= 3 \/ verbosity_other >= 3) => run.step < MaxStep
  /\ LET n == Shuffled(run, strategy)
         n2 == Shuffled(other, strategy)
     IN  \E g \in Perms(Max(n, n2)) :
           /\ run' = Iterate(run, strategy, verbosity, Induced(g, n))
           /\ other' = Iterate(other, strategy, verbosity_other, Induced(g, n2))
  /\ UNCHANGED <<pc, w, h, start, end, mat, unvisited, visiting, maze,
                 strategy, verbosity, verbosity_other, seen>>

\* line 186 of both calls: a call whose frontier is empty returns
ExhaustingBoth ==
  /\ pc = "both"
  /\ \/ run.status = "running" /\ run.stack = <<>>
     \/ other.status = "running" /\ other.stack = <<>>
  /\ run' = IF run.status = "running" /\ run.stack = <<>>
            THEN [run EXCEPT !.status = "exhausted"] ELSE run
  /\ other' = IF other.status = "running" /\ other.stack = <<>>
              THEN [other EXCEPT !.status = "exhausted"] ELSE other
  /\ UNCHANGED <<pc, w, h, start, end, mat, unvisited, visiting, maze,
                 strategy, verbosity, verbosity_other, seen>>

NextPair == SolvingBoth \/ ExploringBoth \/ ExhaustingBoth

PairSpec == InitSolve /\ [][NextPair]_vars

(* --------------------------- grid graphs -------------------------------- *)

Adjacent(p, q) ==
  \/ p[1] = q[1] /\ (p[2] = q[2] + 1 \/ q[2] = p[2] + 1)
  \/ p[2] = q[2] /\ (p[1] = q[1] + 1 \/ q[1] = p[1] + 1)

\* the cells of open that four-connected moves through open reach from set
RECURSIVE Grow(_, _)
Grow(open, set) ==
  LET more == {q \in open \ set : \E p \in set : Adjacent(p, q)}
  IN  IF more = {} THEN set ELSE Grow(open, set \cup more)

Component(open, p) == Grow(open, {p})

RECURSIVE Components(_)
Components(open) ==
  IF open = {} THEN 0
  ELSE 1 + Components(open \ Component(open, CHOOSE p \in open : TRUE))

Links(open) ==
  {pq \in open \X open :
     /\ Adjacent(pq[1], pq[2])
     /\ pq[1][1] < pq[2][1] \/ (pq[1][1] = pq[2][1] /\ pq[1][2] < pq[2][2])}

\* the number of moves of a shortest path through open from the cells of
\* front (d moves from the origin) to goal, -1 when there is none
RECURSIVE Distance(_, _, _, _, _)
Distance(open, front, done, goal, d) ==
  IF goal \in front THEN d
  ELSE LET more == {q \in open \ (done \cup front) : \E p \in front : Adjacent(p, q)}
       IN  IF more = {} THEN -1
           ELSE Distance(open, more, done \cup front, goal, d + 1)

PathCells(m) == {p \in DOMAIN m.a : m.a[p] = c_path.num}

Walkable(m) == {p \in DOMAIN m.a : m.a[p] \notin {c_wall.num, c_visited.num}}

HasChar(text, c) == \E i \in 1 .. Len(text) : text[i] = c

WellFormed(text) ==
  /\ Cardinality({i \in 1 .. Len(text) : text[i] = c_start.chr}) = 1
  /\ Cardinality({i \in 1 .. Len(text) : text[i] = c_end.chr}) = 1

\* the shortest distance from Start to End in the grid of a well-formed text
ShortestPath(text) ==
  LET m == string_to_array_maze(text)
  IN  Distance(Walkable(m), {First(m, c_start.num)}, {}, First(m, c_end.num), 0)

EndReachable(text) == WellFormed(text) /\ ShortestPath(text) >= 0

(* ------------------------------ claims ---------------------------------- *)

\* C1: in the maze make_maze returns, every Path cell is reachable from every
\* other Path cell by four-connected moves through Path cells.
C1_Connected ==
  pc = "maze" => Components(PathCells(mat)) <= 1

\* C2: the maze make_maze returns has no cycle of Path cells: its Path cells
\* and the moves between them form a forest (as many links as cells less
\* components).
C2_Acyclic ==
  pc = "maze" =>
    Cardinality(Links(PathCells(mat)))
      = Cardinality(PathCells(mat)) - Components(PathCells(mat))

Ended == {"exit", "exhausted", "ValueError", "IndexError"}

\* C3: solve on a text that make_maze returned with Start and End both
\* placed ends, under each of the three strategies, by reaching End.
C3_SolveReachesEnd ==
  (pc = "solve" /\ start /\ end /\ strategy \in Strategies /\ run.status \in Ended)
    => run.status = "exit"

\* C4: on a grid with one Start, one End, a Wall border and End reachable
\* from Start, solve never ends by exhausting the frontier.
C4_NoExhaustion ==
  (pc = "solve" /\ run.status = "exhausted") => ~EndReachable(maze)

\* a run on such a grid that took several cells from the frontier, left
\* some in it and reached End
C4_Witness ==
  /\ pc = "solve"
  /\ run.status = "exit" /\ run.explored >= 3 /\ run.stack # <<>>
  /\ EndReachable(maze)

\* C5: solve always terminates.  A loop that ends whatever the shuffles
\* give never starts an iteration with an array and a frontier it has
\* started an iteration with before: from there the same outcomes would
\* bring it back again, for ever.
C5_Terminates ==
  (pc = "solve" /\ run.status = "running") => <<run.mat, run.stack>> \notin seen

\* C6: under bfs, on a maze with one Start and one reachable End, solve
\* reaches End and the walked count it reports is the shortest-path distance
\* from Start to End.
C6_WalkedIsShortestPath ==
  (pc = "solve" /\ strategy = "bfs" /\ run.status \in {"exit", "exhausted"}
     /\ EndReachable(maze)) =>
    /\ run.status = "exit"
    /\ run.report[1].walked = ShortestPath(maze)

\* C6 as amended: under bfs, on such a maze, solve does not end without
\* reaching End, and the walked count it reports is 2 * explored - 1, with
\* explored at least the shortest-path distance plus one.
C6_WalkedCountsWork ==
  (pc = "solve" /\ strategy = "bfs" /\ run.status \in {"exit", "exhausted"}
     /\ EndReachable(maze)) =>
    /\ run.status = "exit"
    /\ run.report[1].walked = 2 * run.report[1].explored - 1
    /\ run.report[1].explored >= ShortestPath(maze) + 1

\* a bfs run that reached an End two moves away after taking more cells
\* from the frontier than the shortest path has
C6_Witness ==
  /\ pc = "solve" /\ strategy = "bfs" /\ run.status = "exit"
  /\ EndReachable(maze)
  /\ ShortestPath(maze) >= 2
  /\ run.report[1].explored > ShortestPath(maze) + 1

\* C7: the text of a generated maze, parsed by string_to_array_maze and
\* written again by array_to_string_maze, is the same text.
C7_RoundTrip ==
  pc = "maze" => array_to_string_maze(string_to_array_maze(maze)) = maze

\* C8: two runs of solve on the same text with the same strategy and the
\* same shuffle outcomes, at any two verbosity levels, take the same cells
\* from the frontier, stand at the same outcome and have the same counters.
C8_VerbosityIrrelevant ==
  pc = "both" =>
    /\ run.popped = other.popped
    /\ run.status = other.status
    /\ run.step = other.step
    /\ run.explored = other.explored
    /\ run.walked = other.walked
    /\ run.max_depth = other.max_depth

\* C9: when the frontier empties before End is taken from it, solve reports
\* that outcome with the statistics a success reports.
C9_UnreachableReported ==
  (pc = "solve" /\ run.status = "exhausted") => run.report # <<>>

\* C10: a call of solve with an unknown strategy, or with a text without
\* Start or without End, ends in an error with no cell taken from the
\* frontier, no cell changed and no counter incremented.
C10_ErrorsPrecedeExploration ==
  (pc = "solve" /\ (\/ strategy \notin Strategies
                    \/ ~HasChar(maze, c_start.chr)
                    \/ ~HasChar(maze, c_end.chr))) =>
    /\ run.status \in {"ValueError", "IndexError"}
    /\ run.popped = <<>>
    /\ run.stack = <<>>
    /\ run.step = 0 /\ run.explored = 0 /\ run.walked = 0 /\ run.max_depth = 0
    /\ run.report = <<>>
    /\ run.mat \in {zeros(0, 0), string_to_array_maze(maze)}

\* a call with a known strategy on a text that has a Start and no End
C10_Witness ==
  /\ pc = "solve" /\ strategy \in Strategies
  /\ HasChar(maze, c_start.chr) /\ ~HasChar(maze, c_end.chr)
  /\ run.status = "IndexError"

\* the seven characters of the codes
Vocabulary == {codes[i].chr : i \in 1 .. Len(codes)}

Count(text, c) == Cardinality({i \in 1 .. Len(text) : text[i] = c})

Malformed(text) ==
  \/ \E i \in 1 .. Len(text) : text[i] \notin Vocabulary \cup {NL}
  \/ Count(text, c_start.chr) > 1
  \/ Count(text, c_end.chr) > 1

\* C11: a text with a character outside the seven of the codes, or with
\* more than one Start or more than one End, is rejected before
\* exploration: solve ends in an error and takes no cell of it from the
\* frontier.
C11_MalformedRejected ==
  (pc = "solve" /\ strategy \in Strategies /\ Malformed(maze)) =>
    /\ run.status \in {"ValueError", "IndexError"}
    /\ run.popped = <<>>

\* C12: the maze make_maze(w=W, h=H) returns has exactly H rows and exactly
\* W columns (w and h hold W + 1 and H + 1 since lines 32-33).
C12_Dimensions ==
  pc = "maze" =>
    /\ mat.shape = <<h - 1, w - 1>>
    /\ Count(maze, NL) = h - 1
    /\ Len(maze) = (h - 1) * w

\* every cell of the first and last row and column of m is Wall
BorderWall(m) ==
  \A p \in DOMAIN m.a :
    (p[1] \in {0, m.shape[1] - 1} \/ p[2] \in {0, m.shape[2] - 1})
      => m.a[p] = c_wall.num

\* C13: the outer border is Wall in the grid make_maze returns and, in every
\* state of a run of solve on the returned text, in the grid solve builds
\* from the text and writes to.
C13_BorderIsWall ==
  /\ pc \in {"maze", "solve"} => BorderWall(mat)
  /\ pc = "solve" => BorderWall(run.mat)

\* C14: when make_maze is called with start and end both requested, the
\* placement never fails, and the text returned has exactly one Start and
\* exactly one End, on two cells that were Path in the text before
\* placement, every other character being as before.
C14_PlacementSucceeds ==
  (start /\ end /\ pc # "make_maze") =>
    /\ pc # "ValueError"
    /\ LET before == array_to_string_maze(mat)
       IN  /\ Len(maze) = Len(before)
           /\ Count(maze, c_start.chr) = 1
           /\ Count(maze, c_end.chr) = 1
           /\ \A i \in 1 .. Len(before) :
                maze[i] # before[i] =>
                  before[i] = c_path.chr /\ maze[i] \in {c_start.chr, c_end.chr}

\* array_to_color_codes_maze: the colour of the last code whose number
\* the cell holds, the zeros of np.zeros when no code has it
array_to_color_codes_maze(m) ==
  [p \in DOMAIN m.a |->
     LET hits == {i \in 1 .. Len(codes) : codes[i].num = m.a[p]}
     IN  IF hits = {} THEN <<0, 0, 0>>
         ELSE codes[CHOOSE i \in hits : \A j \in hits : i >= j].rgb]

\* C15: the tables of the codes are one-to-one, no two states having the
\* same character or the same RGB colour: in every grid of a run of solve,
\* two cells in different states differ in the text array_to_string_maze
\* writes and in the picture array_to_color_codes_maze makes.
C15_TablesBijective ==
  pc = "solve" =>
    \A p, q \in DOMAIN run.mat.a :
      run.mat.a[p] # run.mat.a[q] =>
        /\ CodeChar(run.mat.a[p]) # CodeChar(run.mat.a[q])
        /\ array_to_color_codes_maze(run.mat)[p]
             # array_to_color_codes_maze(run.mat)[q]

\* C16: on a grid with one Start and one End, no cell is taken from the
\* frontier more than once, so at every point of a run explored is the
\* number of distinct coordinates taken so far.
C16_ExploredCountsDistinct ==
  (pc = "solve" /\ WellFormed(maze)) =>
    /\ \A i, j \in 1 .. Len(run.popped) : run.popped[i] = run.popped[j] => i = j
    /\ run.explored = Cardinality({run.popped[i] : i \in 1 .. Len(run.popped)})

\* C17: at the end of every loop iteration, and in the report when End is
\* reached, walked is the number of cells taken from the frontier so far.
C17_WalkedCountsPops ==
  (pc = "solve" /\ run.status \in {"running", "exhausted", "exit"}) =>
    /\ run.walked = Len(run.popped)
    /\ run.status = "exit" => run.report[1].walked = Len(run.popped)

\* C17 as amended: walked counts every cell taken from the frontier once
\* and every cell expanded once more.  At the end of an iteration that
\* expanded its cell it is twice the number of cells taken so far; when End
\* is reached, walked and the value reported are one less than twice that
\* number, End being taken but not expanded.  (explored is the number of
\* cells taken.)
C17_WalkedCountsPopsAndExpansions ==
  (pc = "solve" /\ run.status \in {"running", "exhausted", "exit"}) =>
    /\ run.explored = Len(run.popped)
    /\ run.status # "exit" => run.walked = 2 * Len(run.popped)
    /\ run.status = "exit" =>
         /\ run.walked = 2 * Len(run.popped) - 1
         /\ run.report[1].walked = run.walked

\* a run that reached End as the fourth cell or later and reported walked
C17_Witness ==
  /\ pc = "solve" /\ run.status = "exit"
  /\ Len(run.popped) >= 4
  /\ run.report[1].walked = 2 * Len(run.popped) - 1

\* C18: under 'a*', whenever a cell that is not End was expanded and added
\* at least one admissible neighbour, the next cell taken from the frontier
\* is one of the neighbours just added, none of them is nearer to End than
\* it, and the entries queued earlier keep their order.  (In a state whose
\* loop goes on, run.current is the cell expanded last and its admissible
\* neighbours in run.mat are the ones that expansion added.)
C18_NearestFirst ==
  [][(/\ pc = "solve" /\ strategy = "a*"
      /\ run.status = "running" /\ run.popped # <<>>
      /\ Admissible(run.mat, run.current) # <<>>
      /\ run'.popped # run.popped)
     => LET added == Admissible(run.mat, run.current)
        IN  /\ \E i \in 1 .. Len(added) : run'.current = added[i]
            /\ \A i \in 1 .. Len(added) :
                 distance2(run'.current, run.end) <= distance2(added[i], run.end)
            /\ SubSeq(run'.stack, 1, Len(run.stack) - 1)
                 = SubSeq(run.stack, 1, Len(run.stack) - 1)]_vars

\* p names a cell of m by its own row and column, without wrapping
InGrid(m, p) ==
  p[1] \in 0 .. m.shape[1] - 1 /\ p[2] \in 0 .. m.shape[2] - 1

\* C19: a neighbour coordinate outside the grid is an error, never a wrap:
\* once the cell taken last had a neighbour coordinate below 0 or at or
\* above the height or width, the run has failed with an index error, and
\* no coordinate outside the grid is ever in the frontier or taken from it
\* (so no other cell is read, queued or written in its place).
C19_OutOfBoundsIsError ==
  (pc = "solve" /\ run.status \in {"running", "exhausted", "IndexError"}
     /\ run.popped # <<>>) =>
    /\ (\E i \in 1 .. 4 : ~InGrid(run.mat, prospective(run.current)[i]))
         => run.status = "IndexError"
    /\ \A i \in 1 .. Len(run.stack) : InGrid(run.mat, run.stack[i])
    /\ \A i \in 1 .. Len(run.popped) : InGrid(run.mat, run.popped[i])

WallCells(m) == {p \in DOMAIN m.a : m.a[p] = c_wall.num}

\* C20: solve never changes a Wall cell: in every state of a run, for every
\* strategy and verbosity, the frontier holds only coordinates of cells that
\* are not Wall, and the Wall cells of the grid are those of the parsed
\* input.
C20_WallsUnchanged ==
  (pc = "solve" /\ run.mat # Blank.mat) =>
    /\ \A i \in 1 .. Len(run.stack) :
         InBounds(run.mat, run.stack[i]) /\ Get(run.mat, run.stack[i]) # c_wall.num
    /\ WallCells(run.mat) = WallCells(string_to_array_maze(maze))

\* a run that took three cells or more, each next to a Wall cell, wrote to
\* them and reached End with cells left in the frontier
C20_Witness ==
  /\ pc = "solve" /\ run.status = "exit"
  /\ Len(run.popped) >= 3 /\ run.stack # <<>>
  /\ \A i \in 1 .. Len(run.popped) :
       \E p \in WallCells(run.mat) : Adjacent(p, run.popped[i])

====
